---- MODULE Spec2Model ----
(***************************************************************************)
(* The finance-advisor backend of codespire/server: four HTTP endpoints    *)
(* (server.py) in front of one generative-language API and one SQLite      *)
(* file with two tables (db.py).  Requests are served by threads of the    *)
(* web framework; each request is a process that moves through the steps   *)
(* of its handler and is torn down by close_db.                            *)
(***************************************************************************)
EXTENDS Integers, Sequences, FiniteSets, TLC

\* Number of requests served in one behaviour.
MaxReq == 2
\* Longest array of transactions the upstream API returns.
MaxTx == 2

Req == 1..MaxReq

\* datetime.now().strftime('%Y-%m-%d') at the time of the upload.
Today == "2026-11-01"

(***************************************************************************)
(* Python values.  Every value is a record tagged with its Python type, so *)
(* that values of different types can live in the same field.              *)
(***************************************************************************)
JNull == [ty |-> "NoneType"]
JInt(n) == [ty |-> "int", n |-> n]
JStr(s) == [ty |-> "str", s |-> s]
JObj(o) == [ty |-> "dict", o |-> o]
JArr(a) == [ty |-> "list", a |-> a]
PyFloat(n) == [ty |-> "float", n |-> n]
PyNaN == [ty |-> "nan"]
\* A str whose content is a document (the text the upstream API generated).
PyText(doc) == [ty |-> "str", doc |-> doc]

\* A key that is absent from a JSON object.
Absent == [ty |-> "missing"]

\* dict.get(k, default)
dict_get(d, k, default) == IF d[k] = Absent THEN default ELSE d[k]

\* A budget plan as the upstream API returns it for the 50/30/20 rule.
PlanObj == JObj([needs |-> 50, wants |-> 30, savings |-> 20])

\* The elements the upstream API puts in a categorized array.  Each is a JSON
\* object whose four keys are present, null or absent.
ElemFull == [ty |-> "dict", date |-> JStr("2024-01-05"),
             description |-> JStr("Coffee"), amount |-> JInt(12),
             category |-> JStr("Groceries")]
ElemDefaults == [ty |-> "dict", date |-> JNull, description |-> Absent,
                 amount |-> JStr("abc"), category |-> Absent]
ElemNullDesc == [ty |-> "dict", date |-> JStr("2024-01-05"),
                 description |-> JNull, amount |-> Absent,
                 category |-> JStr("Transport")]
ElemNaN == [ty |-> "dict", date |-> Absent, description |-> JStr("Refund"),
            amount |-> JStr("nan"), category |-> JStr("Health")]
\* The arrays the upstream API returns: up to MaxTx elements that can be
\* stored, alternately complete and in need of the defaults, and the same with
\* one element that cannot be stored at place k.
GoodElem(i) == IF i % 2 = 1 THEN ElemFull ELSE ElemDefaults
BadElems == {ElemNullDesc, ElemNaN}
GoodArray(n) == [i \in 1..n |-> GoodElem(i)]
ArrayWith(n, k, bad) == [i \in 1..n |-> IF i = k THEN bad ELSE GoodElem(i)]
TxArrays ==
    {JArr(GoodArray(n)) : n \in 0..MaxTx}
    \cup UNION {{JArr(ArrayWith(n, k, bad)) : k \in 1..n, bad \in BadElems} :
                n \in 1..MaxTx}

(***************************************************************************)
(* Texts: what candidates[0].content.parts[0].text holds: null, a string   *)
(* that is no JSON document, or the serialisation of a JSON value.         *)
(***************************************************************************)
TextNull == JNull
TextGarbage == PyText([t |-> "garbage"])
TextOf(v) == PyText([t |-> "json", v |-> v])

\* json.loads: the value, or the exception it raises.
json_loads(text) ==
    CASE text.ty # "str" -> [exc |-> "TypeError"]
      [] text.doc.t = "garbage" -> [exc |-> "JSONDecodeError"]
      [] OTHER -> [exc |-> "none", v |-> text.doc.v]

\* float(x) inside the try of the upload loop: ValueError and TypeError
\* give 0.0.
py_float(x) ==
    CASE x.ty = "int" -> PyFloat(x.n)
      [] x.ty = "float" -> x
      [] x.ty = "str" /\ x = JStr("nan") -> PyNaN
      [] OTHER -> PyFloat(0)

\* Python truthiness of what dict.get returns for a field.
truthy(x) ==
    CASE x.ty = "missing" -> FALSE
      [] x.ty = "NoneType" -> FALSE
      [] x.ty = "int" -> x.n # 0
      [] x.ty = "str" /\ "s" \in DOMAIN x -> x.s # ""
      [] OTHER -> TRUE

(***************************************************************************)
(* The requests a client sends.                                            *)
(***************************************************************************)
BudgetBodies ==
    {[income |-> JInt(5000), expenses |-> JInt(3000), goal |-> JStr("car")],
     [income |-> Absent, expenses |-> JInt(3000), goal |-> JStr("car")],
     [income |-> JInt(5000), expenses |-> Absent, goal |-> JStr("car")],
     [income |-> JInt(5000), expenses |-> JInt(3000), goal |-> Absent],
     [income |-> JInt(0), expenses |-> JInt(3000), goal |-> JStr("car")]}

ChatBodies == {[message |-> m] : m \in {Absent, JStr(""), JStr("hi")}}

\* request.files of an upload: no csv_file part, or a part with its filename.
UploadFiles == {[part |-> FALSE, filename |-> ""],
                [part |-> TRUE, filename |-> ""],
                [part |-> TRUE, filename |-> "tx.csv"]}

Requests ==
    {[ep |-> "POST /api/budget", body |-> b] : b \in BudgetBodies}
    \cup {[ep |-> "POST /api/chat", body |-> b] : b \in ChatBodies}
    \cup {[ep |-> "POST /api/upload", files |-> f] : f \in UploadFiles}
    \cup {[ep |-> "GET /api/budget"], [ep |-> "GET /api/transactions"]}

NoRequest == [ep |-> "none"]

(***************************************************************************)
(* What requests.post comes back with: a transport failure, or an HTTP     *)
(* response with a status and a body.                                      *)
(***************************************************************************)
BodyNotJson == [kind |-> "notjson"]
BodyError(m) == [kind |-> "error", message |-> m]
BodyErrorString == [kind |-> "errorstring"]
BodyNoCandidates == [kind |-> "nocandidates"]
BodyText(t) == [kind |-> "candidates", text |-> t]

Transport == [kind |-> "transport"]
Http(s, b) == [kind |-> "http", status |-> s, body |-> b]

Failures ==
    {Transport,
     Http(403, BodyError("Permission denied")),
     Http(429, BodyError("Quota exceeded")),
     Http(400, BodyError("API_KEY_INVALID")),
     Http(503, BodyNotJson),
     Http(500, BodyErrorString),
     Http(200, BodyNotJson),
     Http(200, BodyNoCandidates)}

\* The texts the upstream API answers an endpoint's prompt with.
TextsFor(ep) ==
    CASE ep = "POST /api/chat" -> {TextNull, TextGarbage}
      [] ep = "POST /api/budget" ->
            {TextNull, TextGarbage, TextOf(PlanObj), TextOf(JInt(7))}
      [] ep = "POST /api/upload" ->
            {TextGarbage, TextOf(PlanObj), TextOf(JInt(7))}
            \cup {TextOf(a) : a \in TxArrays}

Upstream(ep) == Failures \cup {Http(200, BodyText(t)) : t \in TextsFor(ep)}

NoUpstream == [kind |-> "nocall"]

(***************************************************************************)
(* call_gemini_api                                                         *)
(***************************************************************************)
\* Every exception class of the run is a subclass of Exception.
ExceptionSubclasses ==
    {"HTTPError", "ConnectionError", "JSONDecodeError", "TypeError",
     "AttributeError", "ValueError", "IntegrityError", "OperationalError",
     "ProgrammingError"}

\* The try block: requests.post, raise_for_status, response.json() and the
\* walk down to the generated text; the text, or the exception raised.
try_post(o) ==
    CASE o.kind = "transport" -> [exc |-> "ConnectionError"]
      [] o.kind = "http" /\ o.status >= 400 /\ o.status < 600 ->
            [exc |-> "HTTPError"]
      [] o.kind = "http" /\ o.body.kind = "notjson" ->
            [exc |-> "JSONDecodeError"]
      [] o.kind = "http" /\ o.body.kind = "candidates" ->
            [exc |-> "none", text |-> o.body.text]
      [] OTHER -> [exc |-> "TypeError"]

\* The "details" of an HTTP-status error, read from the error response's body.
error_message(o) ==
    LET fromBody ==
            CASE o.body.kind = "notjson" -> "Non-JSON error response from Google API"
              [] o.body.kind = "error" -> o.body.message
              [] o.body.kind = "errorstring" -> "Unexpected error during error handling"
              [] OTHER -> "No specific message from API."
    IN  IF o.body.kind \in {"error", "nocandidates", "candidates"}
           /\ (fromBody = "API_KEY_INVALID" \/ o.status = 403)
        THEN "Invalid API Key or API not enabled."
        ELSE fromBody

\* except_clause with "except requests.exceptions.RequestException" in place
\* of "except Exception".
except_clause_requests_only(e, o) ==
    CASE e = "HTTPError" ->
            [envelope |-> [error |-> "API call failed: " \o ToString(o.status),
                           details |-> error_message(o)],
             status |-> o.status]
      [] e = "ConnectionError" ->
            [envelope |-> [error |-> "Internal server error: " \o e],
             status |-> 500]
      [] OTHER -> [raised |-> e]

\* The envelope of the except clause that catches e.
except_clause(e, o) ==
    CASE e = "HTTPError" ->
            [envelope |-> [error |-> "API call failed: " \o ToString(o.status),
                           details |-> error_message(o)],
             status |-> o.status]
      [] e \in ExceptionSubclasses ->
            [envelope |-> [error |-> "Internal server error: " \o e],
             status |-> 500]
      [] OTHER -> [raised |-> e]

\* call_gemini_api posting a second time when the first post fails.
call_gemini_api_retry(key, o) ==
    IF ~key
    THEN [envelope |-> [error |-> "API Key not configured in the server."],
          status |-> 500, calls |-> 0]
    ELSE LET t == try_post(o)
         IN  IF t.exc = "none"
             THEN [envelope |-> [content |-> t.text], status |-> 200, calls |-> 1]
             ELSE [x \in {"calls"} |-> 2] @@ except_clause(t.exc, o)

\* The (envelope, status) pair call_gemini_api returns for outcome o of the
\* outbound call, and the number of outbound calls it made.
call_gemini_api(key, o) ==
    IF ~key
    THEN [envelope |-> [error |-> "API Key not configured in the server."],
          status |-> 500, calls |-> 0]
    ELSE LET t == try_post(o)
         IN  IF t.exc = "none"
             THEN [envelope |-> [content |-> t.text], status |-> 200, calls |-> 1]
             ELSE [x \in {"calls"} |-> 1] @@ except_clause(t.exc, o)

\* response.get('details', response.get('error', ...)) of the handlers.
frontend_error(envelope) ==
    IF "details" \in DOMAIN envelope THEN envelope.details
    ELSE IF "error" \in DOMAIN envelope THEN envelope.error
    ELSE "API processing error occurred."

(***************************************************************************)
(* The SQLite file: two tables (db.py), values in storage classes, NOT     *)
(* NULL columns, one writer at a time.                                     *)
(***************************************************************************)
SqlNull == [ty |-> "null"]
SqlInt(n) == [ty |-> "integer", n |-> n]
SqlReal(n) == [ty |-> "real", n |-> n]
SqlText(s) == [ty |-> "text", s |-> s]

\* How the sqlite3 module binds a Python value to a statement parameter;
\* a NaN is bound as NULL, a dict or list cannot be bound.
adapt(v) ==
    CASE v.ty = "NoneType" -> SqlNull
      [] v.ty = "nan" -> SqlNull
      [] v.ty = "int" -> SqlInt(v.n)
      [] v.ty = "float" -> SqlReal(v.n)
      [] v.ty = "str" /\ "s" \in DOMAIN v -> SqlText(v.s)
      [] v.ty = "str" /\ "doc" \in DOMAIN v -> [ty |-> "text", doc |-> v.doc]
      [] OTHER -> [ty |-> "unsupported"]

\* The column's type affinity applied to a bound value.
affinity(type, v) ==
    CASE type = "REAL" /\ v.ty = "integer" -> SqlReal(v.n)
      [] type = "TEXT" /\ v.ty \in {"integer", "real"} -> SqlText(ToString(v.n))
      [] OTHER -> v

\* What a SELECT hands back to Python for a stored value.
from_sql(v) ==
    CASE v.ty = "null" -> JNull
      [] v.ty = "integer" -> JInt(v.n)
      [] v.ty = "real" -> PyFloat(v.n)
      [] v.ty = "text" /\ "s" \in DOMAIN v -> JStr(v.s)
      [] OTHER -> PyText(v.doc)

TransactionsColumns ==
    [date |-> [type |-> "TEXT", notnull |-> TRUE],
     description |-> [type |-> "TEXT", notnull |-> TRUE],
     amount |-> [type |-> "REAL", notnull |-> TRUE],
     category |-> [type |-> "TEXT", notnull |-> TRUE]]

BudgetsColumns ==
    [income |-> [type |-> "REAL", notnull |-> TRUE],
     expenses |-> [type |-> "REAL", notnull |-> TRUE],
     goal |-> [type |-> "TEXT", notnull |-> TRUE],
     plan_json |-> [type |-> "TEXT", notnull |-> TRUE]]

Columns(table) ==
    IF table = "budgets" THEN BudgetsColumns ELSE TransactionsColumns

\* not_null_ok of a schema whose columns are declared without NOT NULL.
not_null_undeclared(col, v) == col.notnull => TRUE

\* The NOT NULL constraint of a column on a stored value.
not_null_ok(col, v) == col.notnull => v.ty # "null"

\* INSERT INTO table (columns) VALUES (params): the stored values, or the
\* exception the statement raises.
insert_values(table, params) ==
    LET cols == Columns(table)
        bound == [c \in DOMAIN cols |-> adapt(params[c])]
        stored == [c \in DOMAIN cols |-> affinity(cols[c].type, bound[c])]
    IN  IF \E c \in DOMAIN cols : bound[c].ty = "unsupported"
        THEN [exc |-> "ProgrammingError"]
        ELSE IF \E c \in DOMAIN cols : ~not_null_ok(cols[c], stored[c])
        THEN [exc |-> "IntegrityError"]
        ELSE [exc |-> "none", values |-> stored]

(***************************************************************************)
(* State.                                                                  *)
(***************************************************************************)
VARIABLES
    key,            \* GEMINI_API_KEY is set (read once, at start-up)
    pc,             \* pc[r]: where request r is in its handler
    req,            \* req[r]: the request being served
    up,             \* up[r]: the outcome of r's outbound call
    api,            \* api[r]: what call_gemini_api returned to r's handler
    calls,          \* calls[r]: outbound calls made on behalf of r
    todo,           \* todo[r]: what r's handler has still to insert
    resp,           \* resp[r]: the response sent for r
    g,              \* g[r]: the connection in r's application context, or 0
    conns,          \* every connection ever opened: its owner, and whether open
    pending,        \* pending[r]: rows r's connection has inserted, uncommitted
    writer,         \* the request whose connection holds the write lock, or 0
    budgets,        \* the committed rows of table budgets
    transactions,   \* the committed rows of table transactions
    clock           \* CURRENT_TIMESTAMP

vars == <<key, pc, req, up, api, calls, todo, resp, g, conns, pending, writer,
          budgets, transactions, clock>>

NoApi == [none |-> TRUE]
NoResponse == [status |-> 0]

\* finance_data.db outlives the server: init_db runs only when the file does
\* not exist.  A row an earlier run of generate_budget has committed.
EarlierBudget ==
    insert_values("budgets",
        [income |-> JInt(4000), expenses |-> JInt(2500), goal |-> JStr("house"),
         plan_json |-> TextOf(JObj([needs |-> 50, wants |-> 30, savings |-> 20,
                                    advice |-> "save"]))]).values
    @@ [id |-> 1, by |-> 0, created_at |-> 0]

Init ==
    /\ key \in BOOLEAN
    /\ pc = [r \in Req |-> "idle"]
    /\ req = [r \in Req |-> NoRequest]
    /\ up = [r \in Req |-> NoUpstream]
    /\ api = [r \in Req |-> NoApi]
    /\ calls = [r \in Req |-> 0]
    /\ todo = [r \in Req |-> <<>>]
    /\ resp = [r \in Req |-> NoResponse]
    /\ g = [r \in Req |-> 0]
    /\ conns = <<>>
    /\ pending = [r \in Req |-> <<>>]
    /\ writer = 0
    /\ budgets \in {<<>>, <<EarlierBudget>>}
    /\ transactions = <<>>
    /\ clock = 1

(***************************************************************************)
(* Helpers of the handlers.                                                *)
(***************************************************************************)
\* Request r arrives.  Requests are numbered in the order they arrive, and
\* at most two are in flight at a time.
Arrive(r, q) ==
    /\ pc[r] = "idle"
    /\ r > 1 => pc[r - 1] # "idle"
    /\ r > 2 => pc[r - 2] = "done"
    /\ req' = [req EXCEPT ![r] = q]

\* return jsonify(body), status
Reply(r, status, body) ==
    /\ resp' = [resp EXCEPT ![r] = [status |-> status, body |-> body]]
    /\ pc' = [pc EXCEPT ![r] = "teardown"]

Goto(r, label) ==
    /\ pc' = [pc EXCEPT ![r] = label]
    /\ UNCHANGED resp

\* An exception no handler catches: the framework answers 500.
Unhandled(r, e) == Reply(r, 500, [html |-> "Internal Server Error", exc |-> e])

\* get_db: the connection of r's application context, opened on first use.
get_db(r) ==
    IF g[r] = 0
    THEN /\ conns' = Append(conns, [owner |-> r, open |-> TRUE])
         /\ g' = [g EXCEPT ![r] = Len(conns) + 1]
    ELSE UNCHANGED <<g, conns>>

\* close_db on a connection that commits what is pending when it is closed.
close_db_committing(r) ==
    /\ g' = [g EXCEPT ![r] = 0]
    /\ conns' = IF g[r] = 0 THEN conns
                ELSE [conns EXCEPT ![g[r]].open = FALSE]
    /\ budgets' = IF req[r].ep = "POST /api/budget"
                  THEN budgets \o pending[r] ELSE budgets
    /\ transactions' = IF req[r].ep = "POST /api/upload"
                       THEN transactions \o pending[r] ELSE transactions
    /\ pending' = [pending EXCEPT ![r] = <<>>]
    /\ writer' = IF writer = r THEN 0 ELSE writer

\* close_db that pops the connection and forgets to close it.
close_db_without_close(r) ==
    /\ g' = [g EXCEPT ![r] = 0]
    /\ pending' = [pending EXCEPT ![r] = <<>>]
    /\ writer' = IF writer = r THEN 0 ELSE writer
    /\ UNCHANGED <<conns, budgets, transactions>>

\* close_db: pops the connection of r's context and closes it; closing
\* rolls back what the connection has not committed and frees its lock.
close_db(r) ==
    /\ g' = [g EXCEPT ![r] = 0]
    /\ conns' = IF g[r] = 0 THEN conns
                ELSE [conns EXCEPT ![g[r]].open = FALSE]
    /\ pending' = [pending EXCEPT ![r] = <<>>]
    /\ writer' = IF writer = r THEN 0 ELSE writer
    /\ UNCHANGED <<budgets, transactions>>

\* budget_valid without the check of goal.
budget_valid_without_goal(body) ==
    /\ truthy(dict_get(body, "income", JNull))
    /\ truthy(dict_get(body, "expenses", JNull))

\* not all([income, expenses, goal])
budget_valid(body) ==
    /\ truthy(dict_get(body, "income", JNull))
    /\ truthy(dict_get(body, "expenses", JNull))
    /\ truthy(dict_get(body, "goal", JNull))

chat_valid(body) == truthy(dict_get(body, "message", JNull))

\* The 400 of an upload without a file, or "" when there is one.
upload_error(files) ==
    IF ~files.part THEN "No CSV file part."
    ELSE IF files.filename = "" THEN "No selected file."
    ELSE ""

\* The handler's call of call_gemini_api with outcome o of the outbound call.
Called(r, res, o) ==
    /\ api' = [api EXCEPT ![r] = res]
    /\ calls' = [calls EXCEPT ![r] = @ + res.calls]
    /\ up' = [up EXCEPT ![r] = IF res.calls = 0 THEN NoUpstream ELSE o]

\* The keys of a dict, in its iteration order.
RECURSIVE KeySeq(_)
KeySeq(S) ==
    IF S = {} THEN <<>>
    ELSE LET k == CHOOSE x \in S : TRUE IN <<JStr(k)>> \o KeySeq(S \ {k})

\* for t in v: the items, or the TypeError of a value that is not iterable.
py_iter(v) ==
    CASE v.ty = "list" -> [exc |-> "none", items |-> v.a]
      [] v.ty = "dict" -> [exc |-> "none", items |-> KeySeq(DOMAIN v.o)]
      [] OTHER -> [exc |-> "TypeError"]

\* len(v) of a value py_iter iterates.
py_len(v) == Len(py_iter(v).items)

\* The parameters of the INSERT of generate_budget.
budget_params(body, plan_json_str) ==
    [exc |-> "none",
     params |-> [income |-> dict_get(body, "income", JNull),
                 expenses |-> dict_get(body, "expenses", JNull),
                 goal |-> dict_get(body, "goal", JNull),
                 plan_json |-> plan_json_str]]

\* The parameters of the INSERT for element t of the upload loop; t.get
\* raises AttributeError when t is no dict.
transaction_params(t) ==
    IF t.ty # "dict" THEN [exc |-> "AttributeError"]
    ELSE [exc |-> "none",
          params |->
            [date |-> IF truthy(dict_get(t, "date", JNull))
                      THEN t.date ELSE JStr(Today),
             description |-> dict_get(t, "description", JStr("Unknown Description")),
             amount |-> py_float(dict_get(t, "amount", JInt(0))),
             category |-> dict_get(t, "category", JStr("Miscellaneous"))]]

TableOf(ep) == IF ep = "POST /api/budget" THEN "budgets" ELSE "transactions"
Rows(table) == IF table = "budgets" THEN budgets ELSE transactions

\* db.execute(INSERT ...) on r's connection: "database is locked" while
\* another connection holds the write lock, else the statement's outcome.
db_execute(r, table, params) ==
    IF writer \notin {0, r} THEN [exc |-> "OperationalError"]
    ELSE insert_values(table, params)

\* The row an INSERT adds: its values, the AUTOINCREMENT id, created_at's
\* default, and the request that inserted it.
new_row(r, table, values) ==
    values @@ [id |-> Len(Rows(table)) + Len(pending[r]) + 1, by |-> r]
    @@ (IF table = "budgets" THEN [created_at |-> clock]
        ELSE [x \in {} |-> 0])

\* db_commit of a handler that rewrites its table with the rows it inserted.
db_commit_replace(r) ==
    LET table == TableOf(req[r].ep)
    IN  /\ budgets' = IF table = "budgets" THEN pending[r] ELSE budgets
        /\ transactions' = IF table = "transactions"
                           THEN pending[r] ELSE transactions
        /\ pending' = [pending EXCEPT ![r] = <<>>]
        /\ writer' = IF writer = r THEN 0 ELSE writer

\* db.commit(): r's uncommitted rows join their table, the lock is freed.
db_commit(r) ==
    LET table == TableOf(req[r].ep)
    IN  /\ budgets' = IF table = "budgets" THEN budgets \o pending[r] ELSE budgets
        /\ transactions' = IF table = "transactions"
                           THEN transactions \o pending[r] ELSE transactions
        /\ pending' = [pending EXCEPT ![r] = <<>>]
        /\ writer' = IF writer = r THEN 0 ELSE writer

\* select_latest_budget with ORDER BY id ASC.
select_oldest_budget ==
    IF budgets = <<>> THEN <<>>
    ELSE LET i == CHOOSE i \in 1..Len(budgets) :
                    \A j \in 1..Len(budgets) : budgets[j].id >= budgets[i].id
         IN  <<[plan_json |-> budgets[i].plan_json,
                created_at |-> budgets[i].created_at]>>

\* SELECT plan_json, created_at FROM budgets ORDER BY id DESC LIMIT 1
select_latest_budget ==
    IF budgets = <<>> THEN <<>>
    ELSE LET i == CHOOSE i \in 1..Len(budgets) :
                    \A j \in 1..Len(budgets) : budgets[j].id <= budgets[i].id
         IN  <<[plan_json |-> budgets[i].plan_json,
                created_at |-> budgets[i].created_at]>>

\* The text order of the dates the model stores.
DateRank(d) == IF d = SqlText(Today) THEN 2 ELSE 1

\* rows with row inserted before the first row whose date is not later.
RECURSIVE insert_by_date(_, _)
insert_by_date(row, rows) ==
    IF rows = <<>> THEN <<row>>
    ELSE IF DateRank(row.date) >= DateRank(Head(rows).date) THEN <<row>> \o rows
    ELSE <<Head(rows)>> \o insert_by_date(row, Tail(rows))

RECURSIVE order_by_date_desc(_)
order_by_date_desc(rows) ==
    IF rows = <<>> THEN <<>>
    ELSE insert_by_date(Head(rows), order_by_date_desc(Tail(rows)))

\* SELECT id, date, description, amount, category FROM transactions
\* ORDER BY date DESC
select_transactions ==
    LET cols == {"id", "date", "description", "amount", "category"}
    IN  order_by_date_desc(
            [i \in 1..Len(transactions) |->
                [c \in cols |-> transactions[i][c]]])

(***************************************************************************)
(* The handlers, one action per step.                                      *)
(***************************************************************************)
\* POST /api/budget up to the validation of the body.
generate_budget(r) ==
    \E body \in BudgetBodies :
        /\ Arrive(r, [ep |-> "POST /api/budget", body |-> body])
        /\ IF budget_valid(body)
           THEN Goto(r, "call")
           ELSE Reply(r, 400, [error |-> "Missing income, expenses, or goal."])
        /\ UNCHANGED <<key, up, api, calls, todo, g, conns, pending, writer,
                       budgets, transactions, clock>>

\* POST /api/budget from the call of the API to get_db().
generate_budget_call(r) ==
    /\ pc[r] = "call"
    /\ req[r].ep = "POST /api/budget"
    /\ \E o \in Upstream(req[r].ep) :
          LET res == call_gemini_api(key, o)
              plan == json_loads(res.envelope.content)
          IN  /\ Called(r, res, o)
              /\ IF "raised" \in DOMAIN res
                 THEN Unhandled(r, res.raised) /\ UNCHANGED <<todo, g, conns>>
                 ELSE IF res.status # 200
                 THEN /\ Reply(r, 500, [error |-> frontend_error(res.envelope)])
                      /\ UNCHANGED <<todo, g, conns>>
                 ELSE IF plan.exc = "JSONDecodeError"
                 THEN /\ Reply(r, 500, [error |-> "AI returned invalid JSON format."])
                      /\ UNCHANGED <<todo, g, conns>>
                 ELSE IF plan.exc # "none"
                 THEN /\ Reply(r, 500, [error |-> "Internal server error: " \o plan.exc])
                      /\ UNCHANGED <<todo, g, conns>>
                 ELSE /\ get_db(r)
                      /\ todo' = [todo EXCEPT ![r] = <<[ty |-> "budget"]>>]
                      /\ Goto(r, "insert")
    /\ UNCHANGED <<key, req, pending, writer, budgets, transactions, clock>>

\* GET /api/budget
get_budget(r) ==
    /\ Arrive(r, [ep |-> "GET /api/budget"])
    /\ get_db(r)
    /\ LET budget == select_latest_budget
       IN  IF budget = <<>>
           THEN Reply(r, 404, [message |-> "No budget plan found."])
           ELSE LET plan == json_loads(from_sql(budget[1].plan_json))
                IN  IF plan.exc # "none" THEN Unhandled(r, plan.exc)
                    ELSE Reply(r, 200, [plan |-> plan.v,
                                        created_at |-> budget[1].created_at])
    /\ UNCHANGED <<key, up, api, calls, todo, pending, writer,
                   budgets, transactions, clock>>

\* POST /api/chat up to the validation of the body.
chat(r) ==
    \E body \in ChatBodies :
        /\ Arrive(r, [ep |-> "POST /api/chat", body |-> body])
        /\ IF chat_valid(body)
           THEN Goto(r, "call")
           ELSE Reply(r, 400, [error |-> "Message is required."])
        /\ UNCHANGED <<key, up, api, calls, todo, g, conns, pending, writer,
                       budgets, transactions, clock>>

\* POST /api/chat from the call of the API on.
chat_call(r) ==
    /\ pc[r] = "call"
    /\ req[r].ep = "POST /api/chat"
    /\ \E o \in Upstream(req[r].ep) :
          LET res == call_gemini_api(key, o)
          IN  /\ Called(r, res, o)
              /\ IF "raised" \in DOMAIN res THEN Unhandled(r, res.raised)
                 ELSE IF res.status # 200
                 THEN Reply(r, 500, [error |-> frontend_error(res.envelope)])
                 ELSE Reply(r, 200, [reply |-> res.envelope.content])
    /\ UNCHANGED <<key, req, todo, g, conns, pending, writer,
                   budgets, transactions, clock>>

\* POST /api/upload up to the reading of the file.
upload_transactions(r) ==
    \E files \in UploadFiles :
        /\ Arrive(r, [ep |-> "POST /api/upload", files |-> files])
        /\ IF upload_error(files) = ""
           THEN Goto(r, "call")
           ELSE Reply(r, 400, [error |-> upload_error(files)])
        /\ UNCHANGED <<key, up, api, calls, todo, g, conns, pending, writer,
                       budgets, transactions, clock>>

\* POST /api/upload from the call of the API to the head of the for loop.
upload_transactions_call(r) ==
    /\ pc[r] = "call"
    /\ req[r].ep = "POST /api/upload"
    /\ \E o \in Upstream(req[r].ep) :
          LET res == call_gemini_api(key, o)
              parsed == json_loads(res.envelope.content)
              loop == py_iter(parsed.v)
          IN  /\ Called(r, res, o)
              /\ IF "raised" \in DOMAIN res
                 THEN Unhandled(r, res.raised) /\ UNCHANGED <<todo, g, conns>>
                 ELSE IF res.status # 200
                 THEN /\ Reply(r, 500, [error |-> frontend_error(res.envelope)])
                      /\ UNCHANGED <<todo, g, conns>>
                 ELSE IF parsed.exc = "JSONDecodeError"
                 THEN /\ Reply(r, 500, [error |-> "AI returned invalid JSON format."])
                      /\ UNCHANGED <<todo, g, conns>>
                 ELSE IF parsed.exc # "none"
                 THEN /\ Reply(r, 500, [error |-> "Internal server error: " \o parsed.exc])
                      /\ UNCHANGED <<todo, g, conns>>
                 ELSE IF loop.exc # "none"
                 THEN /\ get_db(r)
                      /\ Reply(r, 500, [error |-> "Internal server error: " \o loop.exc])
                      /\ UNCHANGED todo
                 ELSE /\ get_db(r)
                      /\ todo' = [todo EXCEPT ![r] = loop.items]
                      /\ Goto(r, IF loop.items = <<>> THEN "commit" ELSE "insert")
    /\ UNCHANGED <<key, req, pending, writer, budgets, transactions, clock>>

\* One db.execute(INSERT ...) of generate_budget or of the upload loop.
execute_insert(r) ==
    /\ pc[r] = "insert"
    /\ LET table == TableOf(req[r].ep)
           p == IF table = "budgets"
                THEN budget_params(req[r].body, api[r].envelope.content)
                ELSE transaction_params(Head(todo[r]))
           res == db_execute(r, table, p.params)
       IN  IF p.exc # "none"
           THEN /\ Reply(r, 500, [error |-> "Internal server error: " \o p.exc])
                /\ UNCHANGED <<todo, pending, writer, clock>>
           ELSE IF res.exc = "OperationalError"
           THEN /\ Reply(r, 500, [error |-> "Internal server error: " \o res.exc])
                /\ UNCHANGED <<todo, pending, writer, clock>>
           ELSE IF res.exc # "none"
           THEN /\ Reply(r, 500, [error |-> "Internal server error: " \o res.exc])
                /\ writer' = r
                /\ UNCHANGED <<todo, pending, clock>>
           ELSE /\ pending' = [pending EXCEPT
                                 ![r] = Append(@, new_row(r, table, res.values))]
                /\ writer' = r
                /\ clock' = clock + 1
                /\ todo' = [todo EXCEPT ![r] = Tail(@)]
                /\ Goto(r, IF Len(todo[r]) = 1 THEN "commit" ELSE "insert")
    /\ UNCHANGED <<key, req, up, api, calls, g, conns, budgets, transactions>>

\* db.commit() and the 200 that follows it.
commit(r) ==
    /\ pc[r] = "commit"
    /\ db_commit(r)
    /\ LET v == json_loads(api[r].envelope.content).v
       IN  IF req[r].ep = "POST /api/budget"
           THEN Reply(r, 200, [message |-> "Budget plan generated and saved.",
                               plan |-> v])
           ELSE Reply(r, 200, [message |-> "transactions categorized and saved.",
                               count |-> py_len(v), transactions |-> v])
    /\ UNCHANGED <<key, req, up, api, calls, todo, g, conns, clock>>

\* GET /api/transactions
get_transactions(r) ==
    /\ Arrive(r, [ep |-> "GET /api/transactions"])
    /\ get_db(r)
    /\ Reply(r, 200, [transactions |-> select_transactions])
    /\ UNCHANGED <<key, up, api, calls, todo, pending, writer,
                   budgets, transactions, clock>>

\* The application context of r is torn down: close_db runs, and what the
\* request held is gone; the status it answered with stays on record.
teardown(r) ==
    /\ pc[r] = "teardown"
    /\ close_db(r)
    /\ pc' = [pc EXCEPT ![r] = "done"]
    /\ req' = [req EXCEPT ![r] = NoRequest]
    /\ up' = [up EXCEPT ![r] = NoUpstream]
    /\ api' = [api EXCEPT ![r] = NoApi]
    /\ calls' = [calls EXCEPT ![r] = 0]
    /\ todo' = [todo EXCEPT ![r] = <<>>]
    /\ resp' = [resp EXCEPT ![r] = [status |-> @.status]]
    /\ UNCHANGED <<key, clock>>

Next ==
    \E r \in Req :
        \/ generate_budget(r)
        \/ generate_budget_call(r)
        \/ get_budget(r)
        \/ chat(r)
        \/ chat_call(r)
        \/ upload_transactions(r)
        \/ upload_transactions_call(r)
        \/ execute_insert(r)
        \/ commit(r)
        \/ get_transactions(r)
        \/ teardown(r)

Spec == Init /\ [][Next]_vars

(***************************************************************************)
(* Properties.                                                             *)
(***************************************************************************)
Gets == {"GET /api/budget", "GET /api/transactions"}

\* The response of r is out, its application context not yet torn down.
Responded(r) == pc[r] = "teardown"

\* The places of the rows request r has committed to a table.
CommittedBy(r, rows) == {i \in 1..Len(rows) : rows[i].by = r}

NothingStoredBy(r) ==
    /\ CommittedBy(r, budgets) = {}
    /\ CommittedBy(r, transactions) = {}

\* A request the claims call invalid: a field, the file part or the file's
\* name is missing.
MissingInput(q) ==
    CASE q.ep = "POST /api/budget" ->
            Absent \in {q.body.income, q.body.expenses, q.body.goal}
      [] q.ep = "POST /api/chat" -> q.body.message = Absent
      [] q.ep = "POST /api/upload" -> ~q.files.part \/ q.files.filename = ""
      [] OTHER -> FALSE

IsPrefix(s, t) ==
    /\ Len(s) <= Len(t)
    /\ \A i \in 1..Len(s) : s[i] = t[i]

C2_StatusPropagates ==
    \A r \in Req :
        (Responded(r) /\ up[r].kind = "http" /\ up[r].status >= 400) =>
            /\ "error" \in DOMAIN resp[r].body
            /\ resp[r].status = up[r].status

\* The upstream call of r came back 200 with a text that parses as JSON.
UpstreamParsed(r) ==
    /\ "status" \in DOMAIN api[r]
    /\ api[r].status = 200
    /\ json_loads(api[r].envelope.content).exc = "none"

\* C3: with valid input and an upstream 200 whose text parses, POST
\* /api/budget stores exactly one row holding income, expenses, goal and the
\* plan text and answers 200 with the parsed plan; POST /api/upload with an
\* upstream array of N objects stores exactly N rows and answers 200
\* reporting N.
C3_RoundTrip ==
    \A r \in Req :
        (Responded(r) /\ UpstreamParsed(r)) =>
            LET v == json_loads(api[r].envelope.content).v
            IN  /\ req[r].ep = "POST /api/budget" =>
                    /\ resp[r].status = 200
                    /\ resp[r].body.plan = v
                    /\ Cardinality(CommittedBy(r, budgets)) = 1
                    /\ \A i \in CommittedBy(r, budgets) :
                          /\ budgets[i].income.n = req[r].body.income.n
                          /\ budgets[i].expenses.n = req[r].body.expenses.n
                          /\ budgets[i].goal.s = req[r].body.goal.s
                          /\ budgets[i].plan_json.doc = api[r].envelope.content.doc
                /\ (req[r].ep = "POST /api/upload" /\ v.ty = "list") =>
                    /\ resp[r].status = 200
                    /\ resp[r].body.count = Len(v.a)
                    /\ Cardinality(CommittedBy(r, transactions)) = Len(v.a)

\* C4: call_gemini_api never raises; it returns 200 exactly with a "content"
\* envelope holding the generated text, and an "error" envelope with another
\* status in every other case; without an API key it returns 500 and makes
\* no outbound call.
C4_UniformEnvelope ==
    \A r \in Req :
        api[r] # NoApi =>
            /\ "raised" \notin DOMAIN api[r]
            /\ api[r].status = 200 <=> "content" \in DOMAIN api[r].envelope
            /\ api[r].status = 200 <=>
                  (up[r].kind = "http" /\ up[r].status < 400
                   /\ up[r].body.kind = "candidates")
            /\ api[r].status = 200 =>
                  api[r].envelope.content = up[r].body.text
            /\ api[r].status # 200 => "error" \in DOMAIN api[r].envelope
            /\ ~key => (api[r].status = 500 /\ calls[r] = 0
                        /\ up[r] = NoUpstream)

C4_Witness ==
    \E r, s \in Req :
        /\ api[r] # NoApi /\ api[r].status = 200
        /\ api[s] # NoApi /\ up[s].kind = "http" /\ up[s].body.kind = "nocandidates"
        /\ api[s].status = 500

\* C5: both tables are append-only: every step keeps the committed rows of
\* budgets and transactions, unchanged and in place, and the GET endpoints
\* leave both tables as they are.
C5_AppendOnly ==
    [][/\ IsPrefix(budgets, budgets')
       /\ IsPrefix(transactions, transactions')
       /\ \A r \in Req :
             (pc[r] = "idle" /\ req'[r].ep \in Gets) =>
                 UNCHANGED <<budgets, transactions>>]_vars

C5_Witness ==
    \E r \in Req :
        /\ Responded(r) /\ req[r].ep = "GET /api/transactions"
        /\ Len(resp[r].body.transactions) = MaxTx
        /\ Len(transactions) = MaxTx
        /\ budgets # <<>>

\* C6: every committed row of transactions has a date, a description, an
\* amount and a category that are not null, and every committed row of
\* budgets an income, expenses, a goal and a plan_json that are not null.
C6_NotNull ==
    /\ \A i \in 1..Len(transactions) :
          \A c \in {"date", "description", "amount", "category"} :
              transactions[i][c].ty # "null"
    /\ \A i \in 1..Len(budgets) :
          \A c \in {"income", "expenses", "goal", "plan_json"} :
              budgets[i][c].ty # "null"

C6_Witness ==
    \E i \in 1..Len(transactions) :
        /\ transactions[i].date = SqlText(Today)
        /\ transactions[i].description = SqlText("Unknown Description")
        /\ transactions[i].amount = SqlReal(0)
        /\ transactions[i].category = SqlText("Miscellaneous")

\* C7: a request makes at most one outbound call, whether the call succeeds
\* or fails, and the GET endpoints make none.
C7_NoRetry ==
    \A r \in Req :
        /\ calls[r] <= 1
        /\ req[r].ep \in Gets => (calls[r] = 0 /\ api[r] = NoApi)

C7_Witness ==
    \E r, s \in Req :
        /\ Responded(r) /\ calls[r] = 1 /\ up[r].kind = "transport"
        /\ Responded(s) /\ req[s].ep \in Gets

\* C8: GET /api/budget answers 404 "No budget plan found." exactly when
\* budgets is empty, and otherwise 200 with the parsed plan_json and the
\* created_at of the row with the highest id, the one committed last.
C8_LatestBudget ==
    [][\A r \in Req :
         (pc[r] = "idle" /\ req'[r].ep = "GET /api/budget") =>
            IF budgets = <<>>
            THEN /\ resp'[r].status = 404
                 /\ resp'[r].body = [message |-> "No budget plan found."]
            ELSE LET last == budgets[Len(budgets)]
                 IN  /\ \A j \in 1..Len(budgets) : budgets[j].id <= last.id
                     /\ resp'[r].status = 200
                     /\ resp'[r].body.plan = last.plan_json.doc.v
                     /\ resp'[r].body.created_at = last.created_at]_vars

C8_Witness ==
    \E r \in Req :
        /\ Responded(r) /\ req[r].ep = "GET /api/budget"
        /\ Len(budgets) = 2
        /\ resp[r].status = 200
        /\ resp[r].body.created_at = budgets[2].created_at

\* C9: a POST /api/budget or POST /api/upload that is answered with another
\* status than 200 commits no row, neither before its answer nor when its
\* connection is closed.
C9_FailedWriteStoresNothing ==
    \A r \in Req :
        resp[r].status \notin {0, 200} => NothingStoredBy(r)

C9_Witness ==
    \E r \in Req :
        /\ Responded(r) /\ req[r].ep = "POST /api/upload"
        /\ resp[r].status = 500
        /\ Len(pending[r]) = MaxTx - 1
        /\ Len(todo[r]) = 1
        /\ NothingStoredBy(r)

\* The connections request r has opened.
OpenedBy(r) == {i \in 1..Len(conns) : conns[i].owner = r}

\* C10: a request opens at most one connection, the connection in its
\* context is its own and no other request's, and once the request is
\* finished its connection is closed.
C10_PerRequestHandle ==
    \A r \in Req :
        /\ Cardinality(OpenedBy(r)) <= 1
        /\ g[r] # 0 => (g[r] \in OpenedBy(r) /\ conns[g[r]].open)
        /\ \A s \in Req \ {r} : g[r] # 0 => g[s] # g[r]
        /\ pc[r] = "done" =>
              (g[r] = 0 /\ \A i \in OpenedBy(r) : ~conns[i].open)

C10_Witness ==
    \E r, s \in Req :
        /\ pc[r] = "done" /\ resp[r].status = 500 /\ OpenedBy(r) # {}
        /\ pc[s] = "done" /\ resp[s].status = 200 /\ OpenedBy(s) # {}

====
